---------------------------- MODULE Spec2Model ----------------------------
(***************************************************************************)
(* Shopping assistant: the per-session conversation state and its          *)
(* reference resolution (conversation_state.py), the tool layer that       *)
(* consumes it (agent_tools.py), the cart and catalog services             *)
(* (services.py) and the chat requests that drive the tools (main.py).     *)
(*                                                                         *)
(* Python strings that the code inspects by substring, case or parsing     *)
(* (references, queries, titles, comma lists) are sequences of one-char    *)
(* strings, so that lower(), strip(), split(), int() and "x in s" are      *)
(* computed and not assumed.  Prices are integers.                         *)
(***************************************************************************)
EXTENDS Integers, Sequences, FiniteSets, TLC

VARIABLES
    session_states,      \* conversation_state._session_states: dict sid -> state
    current_session,     \* agent_tools._current_session: the db handle (its request) | None
    current_session_id,  \* agent_tools._current_session_id: sid | None
    requests,            \* chat requests in flight: request -> session_id | None
    carts,               \* tables cart / cart_items: sid -> its rows in insertion order
    product_cache,       \* table product_cache: the cached product ids
    lastCall,            \* the most recent call, its arguments and what it returned
    ncalls,              \* calls made so far in this run
    heap,                \* the ConversationState objects constructed so far, by identity
    session_refs,        \* _session_states as Python holds it: sid -> identity of its object
    callers              \* threads in get_session_state and after: what each one holds

vars == <<session_states, current_session, current_session_id, requests,
          carts, product_cache, lastCall, ncalls, heap, session_refs, callers>>

\* the variables that follow object identity; the specifications that
\* take a session's state by value (session_states) leave them alone
handle_vars == <<heap, session_refs, callers>>

\* Python's None where a dict or a list is the other outcome
None == [none |-> TRUE]

\* None for the module globals and the request table
NoSession == "None"

\* Bound: the number of tool / API calls in one run.
MaxCalls == 3

SessionIds == {"A", "B"}
Requests == {"r1", "r2"}
Callers == {"t1", "t2"}

\* a thread that is not in get_session_state and holds no state
Idle == [pc |-> "idle", session_id |-> NoSession, state |-> 0, cleared |-> FALSE]

-----------------------------------------------------------------------------
(* Python str operations *)

UpperChars == <<"A","B","C","D","E","F","G","H","I","J","K","L","M",
                "N","O","P","Q","R","S","T","U","V","W","X","Y","Z">>
LowerChars == <<"a","b","c","d","e","f","g","h","i","j","k","l","m",
                "n","o","p","q","r","s","t","u","v","w","x","y","z">>

LowerChar(c) ==
    IF \E i \in 1..26 : UpperChars[i] = c
    THEN LowerChars[CHOOSE i \in 1..26 : UpperChars[i] = c]
    ELSE c

\* str.lower()
Lower(s) == [i \in 1..Len(s) |-> LowerChar(s[i])]

IsSpace(c) == c \in {" ", "\t", "\n"}

\* str.strip(): drop leading and trailing whitespace
Strip(s) ==
    LET keep == {i \in 1..Len(s) : ~IsSpace(s[i])}
    IN  IF keep = {} THEN <<>>
        ELSE LET lo == CHOOSE i \in keep : \A j \in keep : i <= j
                 hi == CHOOSE i \in keep : \A j \in keep : j <= i
             IN  SubSeq(s, lo, hi)

\* sub in s
Contains(s, sub) ==
    \E i \in 0..(Len(s) - Len(sub)) : SubSeq(s, i + 1, i + Len(sub)) = sub

\* s.split(","): the pieces between commas, empty pieces kept
RECURSIVE SplitComma(_)
SplitComma(s) ==
    IF \A i \in 1..Len(s) : s[i] # ","
    THEN <<s>>
    ELSE LET k == CHOOSE i \in 1..Len(s) :
                      s[i] = "," /\ \A j \in 1..(i - 1) : s[j] # ","
         IN  <<SubSeq(s, 1, k - 1)>> \o SplitComma(SubSeq(s, k + 1, Len(s)))

Digits == <<"0","1","2","3","4","5","6","7","8","9">>
IsDigit(c) == \E d \in 1..10 : Digits[d] = c
DigitVal(c) == (CHOOSE d \in 1..10 : Digits[d] = c) - 1

RECURSIVE DecimalVal(_)
DecimalVal(s) ==
    IF s = <<>> THEN 0
    ELSE 10 * DecimalVal(SubSeq(s, 1, Len(s) - 1)) + DigitVal(s[Len(s)])

\* int(x.strip()): an optionally signed run of digits, else ValueError
ParseInt(x) ==
    LET t == Strip(x)
        signed == t # <<>> /\ t[1] \in {"+", "-"}
        body == IF signed THEN Tail(t) ELSE t
    IN  IF body # <<>> /\ \A i \in 1..Len(body) : IsDigit(body[i])
        THEN [ok |-> TRUE,
              value |-> IF signed /\ t[1] = "-" THEN 0 - DecimalVal(body)
                        ELSE DecimalVal(body)]
        ELSE [ok |-> FALSE, value |-> 0]

-----------------------------------------------------------------------------
(* The upstream catalog (fake_store_client.get_all_products) *)

Product(id, title, price, description, category, image) ==
    [id |-> id, title |-> title, price |-> price,
     description |-> description, category |-> category, image |-> image]

Tech == <<"t","e","c","h">>
Wear == <<"w","e","a","r">>

Catalog == <<
    Product(1, <<"l","a","p"," ","s">>, 30, <<"s","l","i","m">>, Tech, "img1"),
    Product(2, <<"t","v"," ","x">>,     10, <<"o","l","e","d">>, Tech, "img2"),
    Product(3, <<"l","a","p"," ","m">>, 10, <<"m","i","d">>,     Tech, "img3"),
    Product(4, <<"t","v"," ","y">>,     40, <<"l","c","d">>,     Tech, "img4"),
    Product(5, <<"L","a","p"," ","l">>, 40, <<"b","i","g">>,     Tech, "img5"),
    Product(6, <<"h","a","t">>,          5, <<"w","o","o","l">>, Wear, "img6"),
    Product(7, <<"s","o","c","k">>,     20, <<"n","e","w">>,     Wear, "img7") >>

\* get_all_products()
get_all_products == Catalog

\* get_product_by_id(product_id): the record, or None
get_product_by_id(product_id) ==
    IF \E i \in 1..Len(Catalog) : Catalog[i].id = product_id
    THEN Catalog[CHOOSE i \in 1..Len(Catalog) : Catalog[i].id = product_id]
    ELSE None

\* mutant: a slice that keeps one entry more
TakeOneMore(seq, n) == SubSeq(seq, 1, IF Len(seq) < n + 1 THEN Len(seq) ELSE n + 1)

\* results[:n]
Take(seq, n) == SubSeq(seq, 1, IF Len(seq) < n THEN Len(seq) ELSE n)

-----------------------------------------------------------------------------
(* conversation_state.py: class ConversationState *)

\* ConversationState.__init__
ConversationState(session_id) ==
    [session_id |-> session_id,
     last_search_results |-> <<>>,
     last_compared_products |-> <<>>]

\* p.get("category", "")
GetCategory(p) == IF "category" \in DOMAIN p THEN p.category ELSE <<>>

\* mutant: a store of search results that leaves the comparison in place
store_search_results_keeps_comparison(self, products) ==
    [self EXCEPT
        !.last_search_results =
            [i \in 1..Len(products) |->
                [id |-> products[i].id, title |-> products[i].title,
                 price |-> products[i].price,
                 category |-> GetCategory(products[i])]]]

\* mutant: a store of search results that keeps only the first five
store_search_results_truncating(self, products) ==
    [self EXCEPT
        !.last_search_results =
            [i \in 1..(IF Len(products) < 5 THEN Len(products) ELSE 5) |->
                [id |-> products[i].id, title |-> products[i].title,
                 price |-> products[i].price,
                 category |-> GetCategory(products[i])]],
        !.last_compared_products = <<>>]

\* ConversationState.store_search_results
store_search_results(self, products) ==
    [self EXCEPT
        !.last_search_results =
            [i \in 1..Len(products) |->
                [id |-> products[i].id, title |-> products[i].title,
                 price |-> products[i].price,
                 category |-> GetCategory(products[i])]],
        !.last_compared_products = <<>>]

\* mutant: a store of a comparison that resets the search results
store_compared_products_clears_search(self, products) ==
    [self EXCEPT
        !.last_compared_products =
            [i \in 1..Len(products) |->
                [id |-> products[i].id, title |-> products[i].title,
                 price |-> products[i].price]],
        !.last_search_results = <<>>]

\* ConversationState.store_compared_products
store_compared_products(self, products) ==
    [self EXCEPT
        !.last_compared_products =
            [i \in 1..Len(products) |->
                [id |-> products[i].id, title |-> products[i].title,
                 price |-> products[i].price]]]

\* mutant: a minimum that a later entry of equal price replaces
RECURSIVE MinByPriceLastWins(_, _, _)
MinByPriceLastWins(seq, i, best) ==
    IF i > Len(seq) THEN best
    ELSE MinByPriceLastWins(seq, i + 1,
                            IF seq[i].price <= best.price THEN seq[i] ELSE best)

\* min(seq, key=price): a later entry replaces the best only if strictly smaller
RECURSIVE MinByPriceFrom(_, _, _)
MinByPriceFrom(seq, i, best) ==
    IF i > Len(seq) THEN best
    ELSE MinByPriceFrom(seq, i + 1,
                        IF seq[i].price < best.price THEN seq[i] ELSE best)

MinByPrice(seq) == MinByPriceFrom(seq, 2, seq[1])

\* max(seq, key=price): a later entry replaces the best only if strictly greater
RECURSIVE MaxByPriceFrom(_, _, _)
MaxByPriceFrom(seq, i, best) ==
    IF i > Len(seq) THEN best
    ELSE MaxByPriceFrom(seq, i + 1,
                        IF seq[i].price > best.price THEN seq[i] ELSE best)

MaxByPrice(seq) == MaxByPriceFrom(seq, 2, seq[1])

\* ordinal_map, in dict order
ordinal_map == <<
    [ordinal |-> <<"f","i","r","s","t">>,     index |-> 0],
    [ordinal |-> <<"s","e","c","o","n","d">>, index |-> 1],
    [ordinal |-> <<"t","h","i","r","d">>,     index |-> 2],
    [ordinal |-> <<"f","o","u","r","t","h">>, index |-> 3],
    [ordinal |-> <<"f","i","f","t","h">>,     index |-> 4] >>

S_two == <<"t","w","o">>
S_cheaper == <<"c","h","e","a","p","e","r">>
S_cheapest == <<"c","h","e","a","p","e","s","t">>
S_lowest == <<"l","o","w","e","s","t">>
S_expensive == <<"e","x","p","e","n","s","i","v","e">>
S_highest == <<"h","i","g","h","e","s","t">>
S_most == <<"m","o","s","t">>
S_first_two == <<"f","i","r","s","t"," ","t","w","o">>
S_top_two == <<"t","o","p"," ","t","w","o">>
S_top_three == <<"t","o","p"," ","t","h","r","e","e">>
S_first_three == <<"f","i","r","s","t"," ","t","h","r","e","e">>
S_all == <<"a","l","l">>
S_everything == <<"e","v","e","r","y","t","h","i","n","g">>

\* the comparative branches of resolve_product_reference
ResolveComparative(self, reference) ==
    IF Contains(reference, S_cheaper) \/ Contains(reference, S_cheapest)
       \/ Contains(reference, S_lowest)
    THEN IF self.last_compared_products # <<>>
         THEN MinByPrice(self.last_compared_products)
         ELSE IF self.last_search_results # <<>>
         THEN MinByPrice(self.last_search_results)
         ELSE None
    ELSE IF Contains(reference, S_expensive) \/ Contains(reference, S_highest)
            \/ Contains(reference, S_most)
    THEN IF self.last_compared_products # <<>>
         THEN MaxByPrice(self.last_compared_products)
         ELSE IF self.last_search_results # <<>>
         THEN MaxByPrice(self.last_search_results)
         ELSE None
    ELSE None

\* mutant: an ordinal out of bounds falls through to the later rules
RECURSIVE ResolveOrdinalFallsThrough(_, _, _)
ResolveOrdinalFallsThrough(self, reference, k) ==
    IF k > Len(ordinal_map) THEN ResolveComparative(self, reference)
    ELSE IF /\ Contains(reference, ordinal_map[k].ordinal)
            /\ ~Contains(reference, S_two)
            /\ ordinal_map[k].index < Len(self.last_search_results)
    THEN self.last_search_results[ordinal_map[k].index + 1]
    ELSE ResolveOrdinalFallsThrough(self, reference, k + 1)

\* mutant: the ordinal loop without its "two" guard
RECURSIVE ResolveOrdinalNoTwoGuard(_, _, _)
ResolveOrdinalNoTwoGuard(self, reference, k) ==
    IF k > Len(ordinal_map) THEN ResolveComparative(self, reference)
    ELSE IF Contains(reference, ordinal_map[k].ordinal)
    THEN IF ordinal_map[k].index < Len(self.last_search_results)
         THEN self.last_search_results[ordinal_map[k].index + 1]
         ELSE None
    ELSE ResolveOrdinalNoTwoGuard(self, reference, k + 1)

\* mutant: the ordinal loop guarded against "three" as it is against "two"
RECURSIVE ResolveOrdinalGuardsThree(_, _, _)
ResolveOrdinalGuardsThree(self, reference, k) ==
    IF k > Len(ordinal_map) THEN ResolveComparative(self, reference)
    ELSE IF /\ Contains(reference, ordinal_map[k].ordinal)
            /\ ~Contains(reference, S_two)
            /\ ~Contains(reference, <<"t","h","r","e","e">>)
    THEN IF ordinal_map[k].index < Len(self.last_search_results)
         THEN self.last_search_results[ordinal_map[k].index + 1]
         ELSE None
    ELSE ResolveOrdinalGuardsThree(self, reference, k + 1)

\* the ordinal loop of resolve_product_reference, from entry k of ordinal_map
RECURSIVE ResolveOrdinalFrom(_, _, _)
ResolveOrdinalFrom(self, reference, k) ==
    IF k > Len(ordinal_map) THEN ResolveComparative(self, reference)
    ELSE IF Contains(reference, ordinal_map[k].ordinal)
            /\ ~Contains(reference, S_two)
    THEN IF ordinal_map[k].index < Len(self.last_search_results)
         THEN self.last_search_results[ordinal_map[k].index + 1]
         ELSE None
    ELSE ResolveOrdinalFrom(self, reference, k + 1)

\* ConversationState.resolve_product_reference: a product dict, or None
resolve_product_reference(self, reference) ==
    ResolveOrdinalFrom(self, Strip(Lower(reference)), 1)

\* list(range(n)), 0-based
Range0(n) == [i \in 1..n |-> i - 1]

\* mutant: "top three" accepted from two search results on
resolve_product_indices_off_by_one(self, reference) ==
    LET ref == Strip(Lower(reference))
    IN  IF Contains(ref, S_first_two) \/ Contains(ref, S_top_two)
        THEN IF Len(self.last_search_results) >= 2
             THEN [list |-> <<0, 1>>] ELSE None
        ELSE IF Contains(ref, S_top_three) \/ Contains(ref, S_first_three)
        THEN IF Len(self.last_search_results) >= 2
             THEN [list |-> <<0, 1, 2>>] ELSE None
        ELSE IF ref \in {S_all, S_everything}
        THEN [list |-> Range0(Len(self.last_search_results))]
        ELSE None

\* mutant: "all" over no search results is not resolved
resolve_product_indices_all_needs_results(self, reference) ==
    LET ref == Strip(Lower(reference))
    IN  IF Contains(ref, S_first_two) \/ Contains(ref, S_top_two)
        THEN IF Len(self.last_search_results) >= 2
             THEN [list |-> <<0, 1>>] ELSE None
        ELSE IF Contains(ref, S_top_three) \/ Contains(ref, S_first_three)
        THEN IF Len(self.last_search_results) >= 3
             THEN [list |-> <<0, 1, 2>>] ELSE None
        ELSE IF ref \in {S_all, S_everything} /\ self.last_search_results # <<>>
        THEN [list |-> Range0(Len(self.last_search_results))]
        ELSE None

\* ConversationState.resolve_product_indices: [list |-> 0-based indices], or None
resolve_product_indices(self, reference) ==
    LET ref == Strip(Lower(reference))
    IN  IF Contains(ref, S_first_two) \/ Contains(ref, S_top_two)
        THEN IF Len(self.last_search_results) >= 2
             THEN [list |-> <<0, 1>>] ELSE None
        ELSE IF Contains(ref, S_top_three) \/ Contains(ref, S_first_three)
        THEN IF Len(self.last_search_results) >= 3
             THEN [list |-> <<0, 1, 2>>] ELSE None
        ELSE IF ref \in {S_all, S_everything}
        THEN [list |-> Range0(Len(self.last_search_results))]
        ELSE None

\* get_session_state: the dict after create-if-absent; the state is [sid] of it
get_session_state(states, session_id) ==
    IF session_id \notin DOMAIN states
    THEN states @@ (session_id :> ConversationState(session_id))
    ELSE states

\* clear_session_state
clear_session_state(states, session_id) ==
    IF session_id \in DOMAIN states
    THEN [s \in DOMAIN states \ {session_id} |-> states[s]]
    ELSE states

-----------------------------------------------------------------------------
(* services.py *)

\* json.loads on the price_range strings the agent passes here:
\* a value, or JSONDecodeError
json_loads(text) ==
    CASE text = "{\"min\": 10, \"max\": 30}" ->
            [kind |-> "dict", dict |-> [min |-> 10, max |-> 30]]
      [] text = "{\"max\": 10}" -> [kind |-> "dict", dict |-> [max |-> 10]]
      [] text = "{}" -> [kind |-> "dict", dict |-> <<>>]
      [] text = "[10, 30]" -> [kind |-> "list", len |-> 2]
      [] text = "0" -> [kind |-> "int", int |-> 0]
      [] OTHER -> [kind |-> "JSONDecodeError"]

\* Python truthiness of a parsed JSON value / of None
Truthy(v) ==
    /\ v # None
    /\ CASE v.kind = "dict" -> DOMAIN v.dict # {}
         [] v.kind = "list" -> v.len > 0
         [] v.kind = "int" -> v.int # 0
         [] OTHER -> FALSE

\* the ProductCache rows search_products / get_or_cache_product add
CacheAll(cache, products) ==
    cache \cup {products[i].id : i \in 1..Len(products)}

\* ProductService.get_or_cache_product: the product (or None) and the cache after
get_or_cache_product(product_id, cache) ==
    IF product_id \in cache
    THEN [product |-> get_product_by_id(product_id), cache |-> cache]
    ELSE LET product == get_product_by_id(product_id)
         IN  [product |-> product,
              cache |-> IF product # None THEN cache \cup {product.id}
                        ELSE cache]

\* ProductService.search_products: the filters, in the code's order.
\* An unset str argument is the empty string: the code tests only truthiness.
SearchFilter(query, category, price_range) ==
    LET products == get_all_products
        all_categories == {Lower(products[i].category) : i \in 1..Len(products)}
        query_is_category == query # <<>> /\ Lower(query) \in all_categories
        cat == IF query_is_category /\ category = <<>> THEN query ELSE category
        by_query ==
            IF query # <<>> /\ ~query_is_category
            THEN SelectSeq(products,
                     LAMBDA p : \/ Contains(Lower(p.title), Lower(query))
                                \/ Contains(Lower(p.description), Lower(query)))
            ELSE products
        by_category ==
            IF cat # <<>>
            THEN SelectSeq(by_query,
                     LAMBDA p : Lower(p.category) = Lower(cat))
            ELSE by_query
    IN  IF Truthy(price_range)
        THEN SelectSeq(by_category,
                 LAMBDA p :
                     /\ (IF "min" \in DOMAIN price_range.dict
                         THEN price_range.dict.min ELSE 0) <= p.price
                     /\ ("max" \in DOMAIN price_range.dict
                            => p.price <= price_range.dict.max))
        ELSE by_category

\* ProductService.search_products: price_range.get on a truthy value that is
\* no dict raises AttributeError, before anything is cached
ProductService_search_products(query, category, price_range, cache) ==
    IF Truthy(price_range) /\ price_range.kind # "dict"
    THEN [raised |-> "AttributeError", products |-> <<>>, cache |-> cache]
    ELSE LET products == SearchFilter(query, category, price_range)
         IN  [raised |-> "", products |-> products,
              cache |-> CacheAll(cache, products)]

\* CartService.get_or_create_cart
get_or_create_cart(cs, session_id) ==
    IF session_id \in DOMAIN cs THEN cs ELSE cs @@ (session_id :> <<>>)

\* .filter(CartItem.product_id == product_id).first(): its row number, or 0
FirstItem(items, product_id) ==
    IF \E i \in 1..Len(items) : items[i].product_id = product_id
    THEN CHOOSE i \in 1..Len(items) :
             /\ items[i].product_id = product_id
             /\ \A j \in 1..(i - 1) : items[j].product_id # product_id
    ELSE 0

\* mutant: an add that overwrites the quantity of an existing line
CartService_add_to_cart_replaces(cs, session_id, product_id, quantity, product_title, price) ==
    LET c == get_or_create_cart(cs, session_id)
        items == c[session_id]
        k == FirstItem(items, product_id)
    IN  IF k # 0
        THEN [c EXCEPT ![session_id][k].quantity = quantity]
        ELSE [c EXCEPT ![session_id] =
                 Append(items, [product_id |-> product_id,
                                product_title |-> product_title,
                                price |-> price, quantity |-> quantity])]

\* CartService.add_to_cart
CartService_add_to_cart(cs, session_id, product_id, quantity, product_title, price) ==
    LET c == get_or_create_cart(cs, session_id)
        items == c[session_id]
        k == FirstItem(items, product_id)
    IN  IF k # 0
        THEN [c EXCEPT ![session_id][k].quantity = @ + quantity]
        ELSE [c EXCEPT ![session_id] =
                 Append(items, [product_id |-> product_id,
                                product_title |-> product_title,
                                price |-> price, quantity |-> quantity])]

\* CartService.remove_from_cart
CartService_remove_from_cart(cs, session_id, product_id) ==
    LET c == get_or_create_cart(cs, session_id)
        items == c[session_id]
        k == FirstItem(items, product_id)
    IN  IF k # 0
        THEN [c EXCEPT ![session_id] =
                 SubSeq(items, 1, k - 1) \o SubSeq(items, k + 1, Len(items))]
        ELSE c

\* CartService.clear_cart
CartService_clear_cart(cs, session_id) ==
    [get_or_create_cart(cs, session_id) EXCEPT ![session_id] = <<>>]

RECURSIVE SumQuantity(_)
SumQuantity(items) ==
    IF items = <<>> THEN 0
    ELSE Head(items).quantity + SumQuantity(Tail(items))

\* mutant: a total price that adds each line's price once
RECURSIVE SumPriceIgnoresQuantity(_)
SumPriceIgnoresQuantity(items) ==
    IF items = <<>> THEN 0
    ELSE Head(items).price + SumPriceIgnoresQuantity(Tail(items))

RECURSIVE SumPrice(_)
SumPrice(items) ==
    IF items = <<>> THEN 0
    ELSE Head(items).price * Head(items).quantity + SumPrice(Tail(items))

\* CartService.get_cart: the dict it returns, from the rows after get_or_create
CartService_get_cart(cs, session_id) ==
    LET items == get_or_create_cart(cs, session_id)[session_id]
    IN  [session_id |-> session_id,
         items |-> items,
         total_items |-> SumQuantity(items),
         total_price |-> SumPrice(items)]

-----------------------------------------------------------------------------
(* agent_tools.py: each tool as the payload it returns (or the exception it *)
(* raises) and the stores after it, run against session id sid             *)

Outcome(ret, states, cs, cache) ==
    [ret |-> ret, states |-> states, carts |-> cs, cache |-> cache]

Ok(payload) == [kind |-> "ok", payload |-> payload]
Error(message) == [kind |-> "error", error |-> message]
Raise(exc) == [kind |-> "raise", exc |-> exc]

\* how many results the search tool keeps: results[:5]
TopN == 5

\* the "Store results in conversation state" step of search_products
SearchStore(states, sid, top_results) ==
    LET st == get_session_state(states, sid)
    IN  [st EXCEPT ![sid] = store_search_results(st[sid], top_results)]

\* search_products
search_products(query, category, price_range, sid, states, cs, cache) ==
    LET parsed == IF price_range # "" THEN json_loads(price_range) ELSE None
    IN  IF parsed # None /\ parsed.kind = "JSONDecodeError"
        THEN Outcome(Error("Invalid price_range format"), states, cs, cache)
        ELSE
        LET found == ProductService_search_products(query, category, parsed, cache)
            top_results == Take(found.products, TopN)
        IN  IF found.raised # ""
            THEN Outcome(Raise(found.raised), states, cs, cache)
            ELSE Outcome(
                     Ok([i \in 1..Len(top_results) |->
                            [id |-> top_results[i].id,
                             title |-> top_results[i].title,
                             price |-> top_results[i].price,
                             category |-> top_results[i].category,
                             image |-> top_results[i].image]]),
                     SearchStore(states, sid, top_results), cs, found.cache)

\* get_product_details
get_product_details(product_id, sid, states, cs, cache) ==
    LET got == get_or_cache_product(product_id, cache)
    IN  IF got.product = None
        THEN Outcome(Error("Product not found"), states, cs, got.cache)
        ELSE Outcome(Ok([id |-> got.product.id, title |-> got.product.title,
                         price |-> got.product.price,
                         category |-> got.product.category,
                         description |-> got.product.description,
                         image |-> got.product.image]),
                     states, cs, got.cache)

\* a Python int where None is the other outcome (an optional int argument)
PyInt(n) == [kind |-> "int", int |-> n]

\* add_to_cart.  product_id is None or PyInt(n); reference <<>> stands for
\* None and for "": the code tests both arguments by truthiness only.
add_to_cart(product_id, quantity, reference, sid, states, cs, cache) ==
    LET by_reference == reference # <<>> /\ ~Truthy(product_id)
        st == IF by_reference THEN get_session_state(states, sid) ELSE states
        resolved == IF by_reference
                    THEN resolve_product_reference(st[sid], reference)
                    ELSE None
        actual_product_id == IF by_reference /\ resolved # None
                             THEN PyInt(resolved.id) ELSE product_id
    IN  IF by_reference /\ resolved = None
        THEN Outcome(Error("Could not resolve reference"), st, cs, cache)
        ELSE IF ~Truthy(actual_product_id)
        THEN Outcome(Error("Product ID or reference required"), st, cs, cache)
        ELSE
        LET got == get_or_cache_product(actual_product_id.int, cache)
        IN  IF got.product = None
            THEN Outcome(Error("Product not found"), st, cs, got.cache)
            ELSE Outcome(
                     Ok([success |-> TRUE, product_id |-> actual_product_id.int,
                         quantity |-> quantity]),
                     st,
                     CartService_add_to_cart(cs, sid, actual_product_id.int,
                         quantity, got.product.title, got.product.price),
                     got.cache)

\* remove_from_cart
remove_from_cart(product_id, sid, states, cs, cache) ==
    Outcome(Ok([success |-> TRUE, product_id |-> product_id]),
            states, CartService_remove_from_cart(cs, sid, product_id), cache)

\* get_cart
get_cart(sid, states, cs, cache) ==
    Outcome(Ok(CartService_get_cart(cs, sid)),
            states, get_or_create_cart(cs, sid), cache)

\* clear_cart
clear_cart(sid, states, cs, cache) ==
    Outcome(Ok([success |-> TRUE]), states, CartService_clear_cart(cs, sid), cache)

\* the product_ids loop of compare_products: look each id up, skip the unknown
RECURSIVE LookupIds(_, _)
LookupIds(ids, cache) ==
    IF ids = <<>> THEN [products |-> <<>>, cache |-> cache]
    ELSE LET got == get_or_cache_product(Head(ids), cache)
             rest == LookupIds(Tail(ids), got.cache)
         IN  [products |->
                 (IF got.product # None
                  THEN <<[id |-> got.product.id, title |-> got.product.title,
                          price |-> got.product.price,
                          category |-> GetCategory(got.product)]>>
                  ELSE <<>>) \o rest.products,
              cache |-> rest.cache]

\* the "Store compared products" step of compare_products
CompareStore(states, sid, products_to_compare) ==
    LET st == get_session_state(states, sid)
    IN  [st EXCEPT ![sid] = store_compared_products(st[sid], products_to_compare)]

\* the payload compare_products builds
Comparison(products_to_compare) ==
    IF Len(products_to_compare) >= 2
    THEN [products |-> products_to_compare,
          count |-> Len(products_to_compare),
          analysis |->
              [cheapest |-> MinByPrice(products_to_compare),
               most_expensive |-> MaxByPrice(products_to_compare),
               price_difference |->
                   MaxByPrice(products_to_compare).price
                   - MinByPrice(products_to_compare).price]]
    ELSE [products |-> products_to_compare,
          count |-> Len(products_to_compare)]

\* compare_products.  reference <<>> and product_ids <<>> stand for None.
compare_products(reference, product_ids, sid, states, cs, cache) ==
    IF reference # <<>>
    THEN LET st == get_session_state(states, sid)
             indices == resolve_product_indices(st[sid], reference)
         IN  IF indices # None /\ indices.list # <<>>
             THEN LET lsr == st[sid].last_search_results
                      inb == SelectSeq(indices.list, LAMBDA i : i < Len(lsr))
                      products_to_compare == [k \in 1..Len(inb) |-> lsr[inb[k] + 1]]
                  IN  IF products_to_compare = <<>>
                      THEN Outcome(Error("No products to compare"), st, cs, cache)
                      ELSE Outcome(Ok(Comparison(products_to_compare)),
                               CompareStore(st, sid, products_to_compare), cs, cache)
             ELSE Outcome(Error("Could not resolve reference"), st, cs, cache)
    ELSE IF product_ids # <<>>
    THEN LET pieces == SplitComma(product_ids)
             parsed == [k \in 1..Len(pieces) |-> ParseInt(pieces[k])]
         IN  IF \E k \in 1..Len(parsed) : ~parsed[k].ok
             THEN Outcome(Raise("ValueError"), states, cs, cache)
             ELSE LET looked == LookupIds([k \in 1..Len(parsed) |-> parsed[k].value],
                                         cache)
                  IN  IF looked.products = <<>>
                      THEN Outcome(Error("No products to compare"),
                                   states, cs, looked.cache)
                      ELSE Outcome(Ok(Comparison(looked.products)),
                               CompareStore(states, sid, looked.products),
                               cs, looked.cache)
    ELSE Outcome(Error("No products to compare"), states, cs, cache)

-----------------------------------------------------------------------------
(* What a caller observes of a session *)

\* the state get_session_state(s) hands out, created or not yet
StateOf(states, s) ==
    IF s \in DOMAIN states THEN states[s] ELSE ConversationState(s)

\* the cart rows of session s, its cart row created or not yet
CartOf(cs, s) == IF s \in DOMAIN cs THEN cs[s] ELSE <<>>

\* what session s holds: its two lists and its cart rows
Snapshot(s) ==
    [last_search_results |-> StateOf(session_states, s).last_search_results,
     last_compared_products |-> StateOf(session_states, s).last_compared_products,
     cart |-> CartOf(carts, s)]

-----------------------------------------------------------------------------
(* What the agent passes to the tools *)

R_second == <<"s","e","c","o","n","d">>
R_cheaper_one == <<"c","h","e","a","p","e","r"," ","o","n","e">>
R_best == <<"b","e","s","t">>

SearchArgs(query, category, price_range) ==
    [query |-> query, category |-> category, price_range |-> price_range]

SearchInputs == {
    SearchArgs(<<>>, <<>>, ""),
    SearchArgs(<<"t","v">>, <<>>, ""),
    SearchArgs(<<"L","A","P">>, <<"T","e","c","h">>, "{\"min\": 10, \"max\": 30}"),
    SearchArgs(<<"z","z","z">>, <<>>, ""),
    SearchArgs(<<>>, <<>>, "cheap"),
    SearchArgs(<<"w","e","a","r">>, <<>>, "[10, 30]") }

CompareArgs(reference, product_ids) ==
    [reference |-> reference, product_ids |-> product_ids]

CompareInputs == {
    CompareArgs(S_first_two, <<>>),
    CompareArgs(S_top_three, <<>>),
    CompareArgs(S_all, <<>>),
    CompareArgs(R_best, <<>>),
    CompareArgs(<<>>, <<"3",","," ","1">>),
    CompareArgs(<<>>, <<"2",",","x">>),
    CompareArgs(<<>>, <<"9","9">>),
    CompareArgs(<<>>, <<>>) }

AddArgs(product_id, quantity, reference) ==
    [product_id |-> product_id, quantity |-> quantity, reference |-> reference]

AddInputs == {
    AddArgs(PyInt(1), 1, <<>>),
    AddArgs(PyInt(99), 1, <<>>),
    AddArgs(None, 1, <<>>),
    AddArgs(None, 1, R_second),
    AddArgs(None, 1, R_cheaper_one),
    AddArgs(None, 1, S_first_two) }

ProductIdInputs == {1, 99}

-----------------------------------------------------------------------------
(* main.py: chat requests, and the tool calls the agent makes for them *)

Init ==
    /\ session_states = <<>>
    /\ current_session = NoSession
    /\ current_session_id = NoSession
    /\ requests = [r \in Requests |-> NoSession]
    /\ carts = <<>>
    /\ product_cache = {}
    /\ lastCall = [op |-> "init"]
    /\ ncalls = 0
    /\ heap = <<>>
    /\ session_refs = <<>>
    /\ callers = [t \in Callers |-> Idle]

\* chat(): a request for session s arrives, its own db session is opened, and
\* generate_response() starts with set_session_context(db, request.session_id).
\* Nothing another request can see lies between the two, so they are one step.
Chat(r, s) ==
    /\ requests[r] = NoSession
    /\ requests' = [requests EXCEPT ![r] = s]
    /\ current_session' = r
    /\ current_session_id' = s
    /\ UNCHANGED <<session_states, carts, product_cache, lastCall, ncalls>>
    /\ UNCHANGED handle_vars

\* agent.invoke() calls a tool for request r: the tool runs against the
\* module globals as they are now
ToolCall(r, op, args, out) ==
    /\ requests[r] # NoSession
    /\ ncalls < MaxCalls
    /\ session_states' = out.states
    /\ carts' = out.carts
    /\ product_cache' = out.cache
    /\ lastCall' = [op |-> op, owner |-> requests[r], sid |-> current_session_id,
                    args |-> args, ret |-> out.ret,
                    before |-> Snapshot(current_session_id)]
    /\ ncalls' = ncalls + 1
    /\ UNCHANGED <<current_session, current_session_id, requests>>
    /\ UNCHANGED handle_vars

SearchProducts(r) ==
    \E a \in SearchInputs :
        ToolCall(r, "search_products", a,
            search_products(a.query, a.category, a.price_range,
                current_session_id, session_states, carts, product_cache))

GetProductDetails(r) ==
    \E id \in ProductIdInputs :
        ToolCall(r, "get_product_details", [product_id |-> id],
            get_product_details(id,
                current_session_id, session_states, carts, product_cache))

AddToCart(r) ==
    \E a \in AddInputs :
        ToolCall(r, "add_to_cart", a,
            add_to_cart(a.product_id, a.quantity, a.reference,
                current_session_id, session_states, carts, product_cache))

RemoveFromCart(r) ==
    \E id \in ProductIdInputs :
        ToolCall(r, "remove_from_cart", [product_id |-> id],
            remove_from_cart(id,
                current_session_id, session_states, carts, product_cache))

GetCart(r) ==
    ToolCall(r, "get_cart", <<>>,
        get_cart(current_session_id, session_states, carts, product_cache))

CompareProducts(r) ==
    \E a \in CompareInputs :
        ToolCall(r, "compare_products", a,
            compare_products(a.reference, a.product_ids,
                current_session_id, session_states, carts, product_cache))

ClearCart(r) ==
    ToolCall(r, "clear_cart", <<>>,
        clear_cart(current_session_id, session_states, carts, product_cache))

\* generate_response() ends: the reply is streamed and db.close() runs
Finish(r) ==
    /\ requests[r] # NoSession
    /\ requests' = [requests EXCEPT ![r] = NoSession]
    /\ UNCHANGED <<session_states, current_session, current_session_id, carts,
                   product_cache, lastCall, ncalls>>
    /\ UNCHANGED handle_vars

Next ==
    \E r \in Requests :
        \/ \E s \in SessionIds : Chat(r, s)
        \/ SearchProducts(r)
        \/ GetProductDetails(r)
        \/ AddToCart(r)
        \/ RemoveFromCart(r)
        \/ GetCart(r)
        \/ CompareProducts(r)
        \/ ClearCart(r)
        \/ Finish(r)

Spec == Init /\ [][Next]_vars

-----------------------------------------------------------------------------
(* The conversation state driven directly, as a client or a test of         *)
(* conversation_state.py does: any session, any product list, any phrase    *)

\* the phrases passed to the two resolvers
ReferenceInputs == {
    \* "first"
    <<"f","i","r","s","t">>,
    \* "Second"
    <<"S","e","c","o","n","d">>,
    \* " third "
    <<" ","t","h","i","r","d"," ">>,
    \* "fourth"
    <<"f","o","u","r","t","h">>,
    \* "fifth"
    <<"f","i","f","t","h">>,
    \* "sixth"
    <<"s","i","x","t","h">>,
    \* "first two"
    <<"f","i","r","s","t"," ","t","w","o">>,
    \* "  First Two\t"
    <<" "," ","F","i","r","s","t"," ","T","w","o","\t">>,
    \* "top two"
    <<"t","o","p"," ","t","w","o">>,
    \* "top three"
    <<"t","o","p"," ","t","h","r","e","e">>,
    \* "top three or first two"
    <<"t","o","p"," ","t","h","r","e","e"," ","o","r"," ","f","i","r","s","t"," ","t","w","o">>,
    \* "first three"
    <<"f","i","r","s","t"," ","t","h","r","e","e">>,
    \* "the second and the first"
    <<"t","h","e"," ","s","e","c","o","n","d"," ","a","n","d"," ","t","h","e"," ","f","i","r","s","t">>,
    \* "the third most expensive"
    <<"t","h","e"," ","t","h","i","r","d"," ","m","o","s","t"," ","e","x","p","e","n","s","i","v","e">>,
    \* "the first network cable"
    <<"t","h","e"," ","f","i","r","s","t"," ","n","e","t","w","o","r","k"," ","c","a","b","l","e">>,
    \* "two"
    <<"t","w","o">>,
    \* "cheaper one"
    <<"c","h","e","a","p","e","r"," ","o","n","e">>,
    \* "cheapest"
    <<"c","h","e","a","p","e","s","t">>,
    \* "LOWEST price"
    <<"L","O","W","E","S","T"," ","p","r","i","c","e">>,
    \* "more expensive"
    <<"m","o","r","e"," ","e","x","p","e","n","s","i","v","e">>,
    \* "highest"
    <<"h","i","g","h","e","s","t">>,
    \* "the most"
    <<"t","h","e"," ","m","o","s","t">>,
    \* "almost lowest"
    <<"a","l","m","o","s","t"," ","l","o","w","e","s","t">>,
    \* "expensive, not the cheapest"
    <<"e","x","p","e","n","s","i","v","e",","," ","n","o","t"," ","t","h","e"," ","c","h","e","a","p","e","s","t">>,
    \* "all"
    <<"a","l","l">>,
    \* "Everything "
    <<"E","v","e","r","y","t","h","i","n","g"," ">>,
    \* " ALL"
    <<" ","A","L","L">>,
    \* "all of them"
    <<"a","l","l"," ","o","f"," ","t","h","e","m">>,
    \* "best"
    <<"b","e","s","t">>,
    \* ""
    <<>> }

\* product dicts as a caller passes them; one has no "category" key
Bare(p) == [id |-> p.id, title |-> p.title, price |-> p.price]

StoreSearchInputs ==
    {SubSeq(Catalog, 1, n) : n \in 0..Len(Catalog)}
    \cup {SubSeq(Catalog, 4, 5), SubSeq(Catalog, 6, 7), SubSeq(Catalog, 2, 7),
          <<Bare(Catalog[7]), Catalog[6]>>}

StoreComparedInputs ==
    {<<>>, <<Catalog[2], Catalog[3]>>, <<Catalog[3], Catalog[2]>>,
     <<Catalog[1], Catalog[6]>>, <<Catalog[4], Catalog[1], Catalog[5]>>,
     <<Catalog[7]>>}

\* a call of a ConversationState method on get_session_state(s)
ApiCall(s, op, args, ret, states) ==
    /\ ncalls < MaxCalls
    /\ session_states' = states
    /\ lastCall' = [op |-> op, owner |-> s, sid |-> s, args |-> args, ret |-> ret,
                    before |-> Snapshot(s)]
    /\ ncalls' = ncalls + 1
    /\ UNCHANGED <<current_session, current_session_id, requests, carts,
                   product_cache>>
    /\ UNCHANGED handle_vars

GetSessionState(s) ==
    LET st == get_session_state(session_states, s)
    IN  ApiCall(s, "get_session_state", <<>>, st[s], st)

ClearSessionState(s) ==
    ApiCall(s, "clear_session_state", <<>>, None,
            clear_session_state(session_states, s))

StoreSearchResults(s) ==
    \E products \in StoreSearchInputs :
        LET st == get_session_state(session_states, s)
        IN  ApiCall(s, "store_search_results", [products |-> products], None,
                    [st EXCEPT ![s] = store_search_results(st[s], products)])

StoreComparedProducts(s) ==
    \E products \in StoreComparedInputs :
        LET st == get_session_state(session_states, s)
        IN  ApiCall(s, "store_compared_products", [products |-> products], None,
                    [st EXCEPT ![s] = store_compared_products(st[s], products)])

ResolveProductReference(s) ==
    \E reference \in ReferenceInputs :
        LET st == get_session_state(session_states, s)
        IN  ApiCall(s, "resolve_product_reference", [reference |-> reference],
                    resolve_product_reference(st[s], reference), st)

ResolveProductIndices(s) ==
    \E reference \in ReferenceInputs :
        LET st == get_session_state(session_states, s)
        IN  ApiCall(s, "resolve_product_indices", [reference |-> reference],
                    resolve_product_indices(st[s], reference), st)

\* a tool run for session s by a caller that sets the context itself:
\* set_session_context(db, s), then the tool
ToolCallFor(s, op, args, out) ==
    /\ ncalls < MaxCalls
    /\ current_session' = "db"
    /\ current_session_id' = s
    /\ session_states' = out.states
    /\ carts' = out.carts
    /\ product_cache' = out.cache
    /\ lastCall' = [op |-> op, owner |-> s, sid |-> s, args |-> args,
                    ret |-> out.ret, before |-> Snapshot(s)]
    /\ ncalls' = ncalls + 1
    /\ UNCHANGED requests
    /\ UNCHANGED handle_vars

SearchProductsFor(s) ==
    \E a \in SearchInputs :
        ToolCallFor(s, "search_products", a,
            search_products(a.query, a.category, a.price_range,
                s, session_states, carts, product_cache))

CompareProductsFor(s) ==
    \E a \in CompareInputs :
        ToolCallFor(s, "compare_products", a,
            compare_products(a.reference, a.product_ids,
                s, session_states, carts, product_cache))

NextState ==
    \E s \in SessionIds :
        \/ GetSessionState(s)
        \/ ClearSessionState(s)
        \/ StoreSearchResults(s)
        \/ StoreComparedProducts(s)
        \/ ResolveProductReference(s)
        \/ ResolveProductIndices(s)
        \/ SearchProductsFor(s)
        \/ CompareProductsFor(s)

SpecState == Init /\ [][NextState]_vars

-----------------------------------------------------------------------------
(* The tool layer driven one call at a time: every tool, for any session,   *)
(* with the integers and phrases an agent can pass                          *)

\* add_to_cart arguments: ids in and out of the catalog, 0, None; quantities
\* 2, 0 and -1 besides the default; phrases that resolve and that do not
AddCartInputs == {
    AddArgs(PyInt(1), 1, <<>>),
    AddArgs(PyInt(1), 2, <<>>),
    AddArgs(PyInt(6), 0, <<>>),
    AddArgs(PyInt(1), -1, <<>>),
    AddArgs(PyInt(99), 1, <<>>),
    AddArgs(PyInt(0), 1, <<>>),
    AddArgs(PyInt(0), 1, R_second),
    AddArgs(PyInt(0), 1, R_best),
    AddArgs(PyInt(2), 1, R_best),
    AddArgs(None, 1, <<>>),
    AddArgs(None, 1, R_second),
    AddArgs(None, 1, R_cheaper_one),
    AddArgs(None, 1, R_best) }

GetProductDetailsFor(s) ==
    \E id \in ProductIdInputs :
        ToolCallFor(s, "get_product_details", [product_id |-> id],
            get_product_details(id, s, session_states, carts, product_cache))

AddToCartFor(s) ==
    \E a \in AddCartInputs :
        ToolCallFor(s, "add_to_cart", a,
            add_to_cart(a.product_id, a.quantity, a.reference,
                s, session_states, carts, product_cache))

RemoveFromCartFor(s) ==
    \E id \in ProductIdInputs :
        ToolCallFor(s, "remove_from_cart", [product_id |-> id],
            remove_from_cart(id, s, session_states, carts, product_cache))

GetCartFor(s) ==
    ToolCallFor(s, "get_cart", <<>>,
        get_cart(s, session_states, carts, product_cache))

ClearCartFor(s) ==
    ToolCallFor(s, "clear_cart", <<>>,
        clear_cart(s, session_states, carts, product_cache))

NextTools ==
    \E s \in SessionIds :
        \/ SearchProductsFor(s)
        \/ GetProductDetailsFor(s)
        \/ AddToCartFor(s)
        \/ RemoveFromCartFor(s)
        \/ GetCartFor(s)
        \/ CompareProductsFor(s)
        \/ ClearCartFor(s)

SpecTools == Init /\ [][NextTools]_vars

-----------------------------------------------------------------------------
(* conversation_state.py with object identity: _session_states holds        *)
(* references, get_session_state hands one out, and a caller writes through *)
(* the reference it was handed (state = get_session_state(sid);             *)
(* state.store_search_results(...), as search_products does)                *)

\* Bound: the number of ConversationState objects constructed in one run.
MaxObjects == 3

\* _session_states with every reference followed: sid -> the fields of its object
Deref(refs, h) == [s \in DOMAIN refs |-> h[refs[s]]]

\* _session_states[session_id] = value
Assign(refs, session_id, value) ==
    [s \in DOMAIN refs \cup {session_id} |->
        IF s = session_id THEN value ELSE refs[s]]

\* mutant: a get that constructs a fresh state on every call
get_session_state_by_ref_always_new(refs, h, session_id) ==
    [refs |-> Assign(refs, session_id, Len(h) + 1),
     heap |-> Append(h, ConversationState(session_id)),
     state |-> Len(h) + 1]

\* get_session_state run from test to return with no other thread in
\* between: the dict and the objects after it, and the reference returned
get_session_state_by_ref(refs, h, session_id) ==
    IF session_id \notin DOMAIN refs
    THEN [refs |-> Assign(refs, session_id, Len(h) + 1),
          heap |-> Append(h, ConversationState(session_id)),
          state |-> Len(h) + 1]
    ELSE [refs |-> refs, heap |-> h, state |-> refs[session_id]]

\* the product lists written through a reference
HandleStoreInputs == {SubSeq(Catalog, 1, 2), SubSeq(Catalog, 6, 7)}

\* a step of the identity layer: the dict by value follows the references
HandleStep(refs, h) ==
    /\ session_refs' = refs
    /\ heap' = h
    /\ session_states' = Deref(refs, h)
    /\ UNCHANGED <<current_session, current_session_id, requests, carts,
                   product_cache, ncalls>>

\* thread t calls get_session_state(s) and is handed the state
GetState(t, s) ==
    /\ callers[t].pc \in {"idle", "got"}
    /\ s \in DOMAIN session_refs \/ Len(heap) < MaxObjects
    /\ LET got == get_session_state_by_ref(session_refs, heap, s)
       IN  /\ HandleStep(got.refs, got.heap)
           /\ callers' = [callers EXCEPT ![t] =
                  [pc |-> "got", session_id |-> s, state |-> got.state,
                   cleared |-> FALSE]]
           /\ lastCall' = [op |-> "get_session_state", owner |-> t, sid |-> s,
                           args |-> <<>>, ret |-> got.heap[got.state],
                           before |-> Snapshot(s),
                           created |-> s \notin DOMAIN session_refs]

\* thread t stores search results through the state it was handed, and
\* drops the reference (the tool returns)
StoreViaState(t) ==
    /\ callers[t].pc = "got"
    /\ \E products \in HandleStoreInputs :
           /\ HandleStep(session_refs,
                  [heap EXCEPT ![callers[t].state] =
                      store_search_results(@, products)])
           /\ lastCall' = [op |-> "store_search_results", owner |-> t,
                           sid |-> callers[t].session_id,
                           args |-> [products |-> products], ret |-> None,
                           before |-> Snapshot(callers[t].session_id),
                           cleared |-> callers[t].cleared]
    /\ callers' = [callers EXCEPT ![t] = Idle]

\* clear_session_state(s); the threads that hold the state of s are marked
ClearState(s) ==
    /\ HandleStep([x \in DOMAIN session_refs \ {s} |-> session_refs[x]], heap)
    /\ callers' = [t \in Callers |->
                      IF callers[t].session_id = s
                      THEN [callers[t] EXCEPT !.cleared = TRUE]
                      ELSE callers[t]]
    /\ lastCall' = [op |-> "clear_session_state", owner |-> s, sid |-> s,
                    args |-> <<>>, ret |-> None, before |-> Snapshot(s)]

NextHandles ==
    \/ \E t \in Callers : \E s \in SessionIds : GetState(t, s)
    \/ \E t \in Callers : StoreViaState(t)
    \/ \E s \in SessionIds : ClearState(s)

SpecHandles == Init /\ [][NextHandles]_vars

-----------------------------------------------------------------------------
(* get_session_state called from request threads that overlap: the test,    *)
(* the insertion and the return are separate steps of a thread              *)

\* thread t enters get_session_state(s)
CallGetSessionState(t, s) ==
    /\ callers[t].pc = "idle"
    /\ callers' = [callers EXCEPT ![t] = [Idle EXCEPT !.pc = "test",
                                                      !.session_id = s]]
    /\ HandleStep(session_refs, heap)
    /\ UNCHANGED lastCall

\* if session_id not in _session_states:
TestMembership(t) ==
    /\ callers[t].pc = "test"
    /\ callers' = [callers EXCEPT ![t].pc =
                      IF callers[t].session_id \notin DOMAIN session_refs
                      THEN "insert" ELSE "return"]
    /\ HandleStep(session_refs, heap)
    /\ UNCHANGED lastCall

\* _session_states[session_id] = ConversationState(session_id)
InsertState(t) ==
    /\ callers[t].pc = "insert"
    /\ callers' = [callers EXCEPT ![t].pc = "return"]
    /\ HandleStep(Assign(session_refs, callers[t].session_id, Len(heap) + 1),
                  Append(heap, ConversationState(callers[t].session_id)))
    /\ UNCHANGED lastCall

\* return _session_states[session_id]
ReturnState(t) ==
    /\ callers[t].pc = "return"
    /\ callers' = [callers EXCEPT ![t].pc = "got",
                                  ![t].state = session_refs[callers[t].session_id]]
    /\ HandleStep(session_refs, heap)
    /\ lastCall' = [op |-> "get_session_state", owner |-> t,
                    sid |-> callers[t].session_id, args |-> <<>>,
                    ret |-> heap[session_refs[callers[t].session_id]],
                    before |-> Snapshot(callers[t].session_id)]

NextRace ==
    \E t \in Callers :
        \/ \E s \in SessionIds : CallGetSessionState(t, s)
        \/ TestMembership(t)
        \/ InsertState(t)
        \/ ReturnState(t)
        \/ StoreViaState(t)

SpecRace == Init /\ [][NextRace]_vars

-----------------------------------------------------------------------------
(* Properties *)

ToolOps == {"search_products", "get_product_details", "add_to_cart",
            "remove_from_cart", "get_cart", "compare_products", "clear_cart"}

\* the session the last call ran against, as it is now
Now == Snapshot(lastCall.sid)

\* the phrase of the last call as the resolvers match it
Phrase == Strip(Lower(lastCall.args.reference))

\* the summary a stored search result keeps of a product
Summary(p) ==
    [id |-> p.id, title |-> p.title, price |-> p.price,
     category |-> IF "category" \in DOMAIN p THEN p.category ELSE <<>>]

\* C1: concurrent requests for different sessions do not interfere: a tool
\* call made for a request runs against that request's session id, and it
\* leaves the lists and the cart of every other session as they were.
C1_SessionsDoNotInterfere ==
    [][(ncalls' = ncalls + 1 /\ lastCall'.op \in ToolOps)
        => /\ lastCall'.sid = lastCall'.owner
           /\ \A s \in SessionIds \ {lastCall'.owner} :
                  Snapshot(s)' = Snapshot(s)]_vars

\* C2: right after search results are stored for a session, by
\* store_search_results or by a successful search_products call (an empty
\* result included), that session's last_compared_products is empty.
C2_SearchResetsComparison ==
    (\/ lastCall.op = "store_search_results"
     \/ (lastCall.op = "search_products" /\ lastCall.ret.kind = "ok"))
    => Now.last_compared_products = <<>>

\* a search that found nothing, in a session that held a comparison
C2_Witness ==
    /\ lastCall.op = "search_products"
    /\ lastCall.ret.kind = "ok"
    /\ lastCall.ret.payload = <<>>
    /\ lastCall.before.last_compared_products # <<>>
    /\ Now.last_compared_products = <<>>

\* C3: storing a comparison, by store_compared_products or by a successful
\* compare_products call, leaves the session's last_search_results as they
\* were before the call.
C3_CompareKeepsSearchResults ==
    (\/ lastCall.op = "store_compared_products"
     \/ (lastCall.op = "compare_products" /\ lastCall.ret.kind = "ok"))
    => Now.last_search_results = lastCall.before.last_search_results

\* a non-empty comparison stored over non-empty search results
C3_Witness ==
    /\ lastCall.op = "store_compared_products"
    /\ lastCall.args.products # <<>>
    /\ lastCall.before.last_search_results # <<>>
    /\ Now.last_compared_products # lastCall.before.last_compared_products
    /\ Now.last_search_results = lastCall.before.last_search_results

\* C4, as claimed: store_search_results keeps only the first min(5, |P|)
\* entries of its input P.
C4_StoreTruncatesToFive ==
    lastCall.op = "store_search_results"
    => LET P == lastCall.args.products
           n == IF Len(P) < 5 THEN Len(P) ELSE 5
       IN  Now.last_search_results = [i \in 1..n |-> Summary(P[i])]

\* C4, amended: store_search_results keeps every entry of its input, in the
\* input's order; the cut to the first 5 is made by the search_products tool
\* before it stores, so that a successful search stores the first
\* min(5, n) of the n products the catalog search found.
C4_StoreKeepsAllToolTruncates ==
    /\ lastCall.op = "store_search_results"
       => LET P == lastCall.args.products
          IN  Now.last_search_results = [i \in 1..Len(P) |-> Summary(P[i])]
    /\ (lastCall.op = "search_products" /\ lastCall.ret.kind = "ok")
       => LET a == lastCall.args
              found == SearchFilter(a.query, a.category,
                           IF a.price_range # "" THEN json_loads(a.price_range)
                           ELSE None)
              n == IF Len(found) < 5 THEN Len(found) ELSE 5
          IN  Now.last_search_results = [i \in 1..n |-> Summary(found[i])]

\* seven products stored directly: all seven are kept
C4_Witness ==
    /\ lastCall.op = "store_search_results"
    /\ Len(lastCall.args.products) = 7
    /\ Len(Now.last_search_results) = 7

\* C5: a tool call that returns an error payload leaves the session's
\* last_search_results and last_compared_products as they were; and
\* compare_products with "top three" over exactly 2 search results returns
\* an error and leaves the two lists and the cart as they were.
C5_FailedCallKeepsState ==
    /\ (lastCall.op \in ToolOps /\ lastCall.ret.kind = "error")
       => /\ Now.last_search_results = lastCall.before.last_search_results
          /\ Now.last_compared_products = lastCall.before.last_compared_products
    /\ (/\ lastCall.op = "compare_products"
        /\ Phrase = S_top_three
        /\ Len(lastCall.before.last_search_results) = 2)
       => /\ lastCall.ret.kind = "error"
          /\ Now = lastCall.before

\* "top three" over two search results, in a session that holds a comparison
C5_Witness ==
    /\ lastCall.op = "compare_products"
    /\ lastCall.args.reference = S_top_three
    /\ Len(lastCall.before.last_search_results) = 2
    /\ lastCall.before.last_compared_products # <<>>
    /\ lastCall.ret.kind = "error"

\* C6: no tool raises: every tool call returns a success or an error payload.
C6_NoToolRaises ==
    lastCall.op \in ToolOps => lastCall.ret.kind \in {"ok", "error"}

\* the ordinal words in their fixed order: first = index 0 .. fifth = index 4
OrdinalWords == <<
    <<"f","i","r","s","t">>, <<"s","e","c","o","n","d">>, <<"t","h","i","r","d">>,
    <<"f","o","u","r","t","h">>, <<"f","i","f","t","h">> >>

\* the ordinal rule applies: some ordinal word occurs and "two" does not
OrdinalRule(ref) ==
    /\ \E k \in 1..5 : Contains(ref, OrdinalWords[k])
    /\ ~Contains(ref, <<"t","w","o">>)

\* the position, in the fixed order, of the earliest ordinal word that occurs
EarliestOrdinal(ref) ==
    CHOOSE k \in 1..5 :
        /\ Contains(ref, OrdinalWords[k])
        /\ \A j \in 1..(k - 1) : ~Contains(ref, OrdinalWords[j])

\* C7: when the phrase has no "two" and has an ordinal word, the result is
\* the search result at the index of the earliest ordinal word in the order
\* first..fifth if that index is in bounds, and None otherwise, whatever
\* other ordinal or comparative words the phrase has and whatever
\* last_compared_products holds.
C7_OrdinalRule ==
    (lastCall.op = "resolve_product_reference" /\ OrdinalRule(Phrase))
    => LET k == EarliestOrdinal(Phrase)
           lsr == Now.last_search_results
       IN  lastCall.ret = IF k <= Len(lsr) THEN lsr[k] ELSE None

\* "the third most expensive" resolves to the third search result, which is
\* not the dearest, while a comparison is held
C7_Witness ==
    /\ lastCall.op = "resolve_product_reference"
    /\ Contains(Phrase, <<"t","h","i","r","d">>)
    /\ Contains(Phrase, <<"e","x","p","e","n","s","i","v","e">>)
    /\ Len(Now.last_search_results) >= 3
    /\ Now.last_compared_products # <<>>
    /\ lastCall.ret = Now.last_search_results[3]
    /\ \E i \in 1..Len(Now.last_search_results) :
           Now.last_search_results[i].price > lastCall.ret.price

\* C8: the phrase "first two" resolves to None as a single product, whatever
\* the two lists hold.
C8_FirstTwoUnresolved ==
    (lastCall.op = "resolve_product_reference"
     /\ Phrase = <<"f","i","r","s","t"," ","t","w","o">>)
    => lastCall.ret = None

\* "first two" asked of a session that holds search results and a comparison
C8_Witness ==
    /\ lastCall.op = "resolve_product_reference"
    /\ lastCall.args.reference = <<"f","i","r","s","t"," ","t","w","o">>
    /\ Now.last_search_results # <<>>
    /\ Now.last_compared_products # <<>>
    /\ lastCall.ret = None

CheapWord(ref) ==
    \/ Contains(ref, <<"c","h","e","a","p","e","r">>)
    \/ Contains(ref, <<"c","h","e","a","p","e","s","t">>)
    \/ Contains(ref, <<"l","o","w","e","s","t">>)

ExpensiveWord(ref) ==
    \/ Contains(ref, <<"e","x","p","e","n","s","i","v","e">>)
    \/ Contains(ref, <<"h","i","g","h","e","s","t">>)
    \/ Contains(ref, <<"m","o","s","t">>)

\* the first entry of seq whose price no entry undercuts
FirstMin(seq) ==
    seq[CHOOSE i \in 1..Len(seq) :
            /\ \A j \in 1..Len(seq) : seq[i].price <= seq[j].price
            /\ \A j \in 1..(i - 1) : seq[j].price > seq[i].price]

\* the first entry of seq whose price no entry exceeds
FirstMax(seq) ==
    seq[CHOOSE i \in 1..Len(seq) :
            /\ \A j \in 1..Len(seq) : seq[i].price >= seq[j].price
            /\ \A j \in 1..(i - 1) : seq[j].price < seq[i].price]

\* the comparison set if it is non-empty, else the search set, else None
CheapestHeld ==
    IF Now.last_compared_products # <<>> THEN FirstMin(Now.last_compared_products)
    ELSE IF Now.last_search_results # <<>> THEN FirstMin(Now.last_search_results)
    ELSE None

DearestHeld ==
    IF Now.last_compared_products # <<>> THEN FirstMax(Now.last_compared_products)
    ELSE IF Now.last_search_results # <<>> THEN FirstMax(Now.last_search_results)
    ELSE None

\* C9, as claimed: with no ordinal rule matching, a phrase with
\* cheaper/cheapest/lowest resolves to the first minimum-price entry of the
\* comparison set (of the search set if the comparison set is empty, None if
\* both are), and a phrase with expensive/highest/most to the first
\* maximum-price entry in the same way.
C9_ComparativeRules ==
    (lastCall.op = "resolve_product_reference" /\ ~OrdinalRule(Phrase))
    => /\ CheapWord(Phrase) => lastCall.ret = CheapestHeld
       /\ ExpensiveWord(Phrase) => lastCall.ret = DearestHeld

\* C9, amended: the same, the maximum rule applying only to a phrase that
\* has none of cheaper/cheapest/lowest: the minimum rule comes first.
C9_ComparativeRulesInOrder ==
    (lastCall.op = "resolve_product_reference" /\ ~OrdinalRule(Phrase))
    => /\ CheapWord(Phrase) => lastCall.ret = CheapestHeld
       /\ (ExpensiveWord(Phrase) /\ ~CheapWord(Phrase))
          => lastCall.ret = DearestHeld

\* "cheaper one" over a comparison whose two entries tie on price, while the
\* search results hold a cheaper product: the first compared entry is returned
C9_Witness ==
    /\ lastCall.op = "resolve_product_reference"
    /\ CheapWord(Phrase)
    /\ ~OrdinalRule(Phrase)
    /\ Len(Now.last_compared_products) = 2
    /\ Now.last_compared_products[1].price = Now.last_compared_products[2].price
    /\ Now.last_compared_products[1] # Now.last_compared_products[2]
    /\ lastCall.ret = Now.last_compared_products[1]
    /\ \E i \in 1..Len(Now.last_search_results) :
           Now.last_search_results[i].price < lastCall.ret.price

TwoRef(ref) ==
    \/ Contains(ref, <<"f","i","r","s","t"," ","t","w","o">>)
    \/ Contains(ref, <<"t","o","p"," ","t","w","o">>)

ThreeRef(ref) ==
    \/ Contains(ref, <<"t","o","p"," ","t","h","r","e","e">>)
    \/ Contains(ref, <<"f","i","r","s","t"," ","t","h","r","e","e">>)

\* every index returned is an index of last_search_results
IndicesInBounds ==
    lastCall.ret # None
    => \A k \in 1..Len(lastCall.ret.list) :
           /\ 0 <= lastCall.ret.list[k]
           /\ lastCall.ret.list[k] < Len(Now.last_search_results)

\* C10, as claimed: a phrase with "first two" or "top two" resolves to
\* [0,1] from 2 search results on and to None below; a phrase with
\* "top three" or "first three" to [0,1,2] from 3 on and to None below;
\* every index returned is in bounds.
C10_FixedSizeReferences ==
    lastCall.op = "resolve_product_indices"
    => /\ TwoRef(Phrase)
          => lastCall.ret = IF Len(Now.last_search_results) >= 2
                            THEN [list |-> <<0, 1>>] ELSE None
       /\ ThreeRef(Phrase)
          => lastCall.ret = IF Len(Now.last_search_results) >= 3
                            THEN [list |-> <<0, 1, 2>>] ELSE None
       /\ IndicesInBounds

\* C10, amended: the same, the "three" rule applying only to a phrase that
\* has neither "first two" nor "top two": the "two" rule comes first.
C10_FixedSizeReferencesInOrder ==
    lastCall.op = "resolve_product_indices"
    => /\ TwoRef(Phrase)
          => lastCall.ret = IF Len(Now.last_search_results) >= 2
                            THEN [list |-> <<0, 1>>] ELSE None
       /\ (ThreeRef(Phrase) /\ ~TwoRef(Phrase))
          => lastCall.ret = IF Len(Now.last_search_results) >= 3
                            THEN [list |-> <<0, 1, 2>>] ELSE None
       /\ IndicesInBounds

\* "top three" over exactly three search results
C10_Witness ==
    /\ lastCall.op = "resolve_product_indices"
    /\ lastCall.args.reference = <<"t","o","p"," ","t","h","r","e","e">>
    /\ Len(Now.last_search_results) = 3
    /\ lastCall.ret = [list |-> <<0, 1, 2>>]

\* C11: resolve_product_indices with a phrase that, trimmed and lower-cased,
\* is exactly "all" or "everything" returns the indices 0..n-1 of
\* last_search_results; over no search results it returns the empty list,
\* which is a resolution and not None.
C11_AllResolvesEveryIndex ==
    (lastCall.op = "resolve_product_indices" /\ Phrase \in {S_all, S_everything})
    => /\ lastCall.ret # None
       /\ Len(lastCall.ret.list) = Len(Now.last_search_results)
       /\ \A i \in 1..Len(lastCall.ret.list) : lastCall.ret.list[i] = i - 1
       /\ (Now.last_search_results = <<>> => lastCall.ret = [list |-> <<>>])

\* " ALL" resolved in a session that holds no search results
C11_Witness ==
    /\ lastCall.op = "resolve_product_indices"
    /\ lastCall.args.reference = <<" ","A","L","L">>
    /\ Now.last_search_results = <<>>
    /\ lastCall.ret = [list |-> <<>>]

\* the rows of a cart that hold product pid
LinesOf(cart, pid) == {i \in 1..Len(cart) : cart[i].product_id = pid}

\* C12: add_to_cart by the reference "second" alone (no product_id, quantity
\* 1), in a session whose last search stored at least 2 results, succeeds
\* and leaves exactly one cart line for the product at index 1 of
\* last_search_results: a new line of quantity 1 if the cart had none, the
\* existing line with its quantity raised by 1 otherwise (1, then 2); every
\* other line stays as it was.
C12_AddBySecondIncrements ==
    (/\ lastCall.op = "add_to_cart"
     /\ lastCall.args.product_id = None
     /\ lastCall.args.quantity = 1
     /\ Phrase = R_second
     /\ Len(lastCall.before.last_search_results) >= 2)
    => LET pid == lastCall.before.last_search_results[2].id
           old == lastCall.before.cart
           new == Now.cart
       IN  /\ lastCall.ret.kind = "ok"
           /\ Cardinality(LinesOf(new, pid)) = 1
           /\ IF LinesOf(old, pid) = {}
              THEN /\ Len(new) = Len(old) + 1
                   /\ SubSeq(new, 1, Len(old)) = old
                   /\ new[Len(new)].quantity = 1
              ELSE /\ Len(new) = Len(old)
                   /\ \A i \in 1..Len(old) :
                          new[i] = IF i \in LinesOf(old, pid)
                                   THEN [old[i] EXCEPT !.quantity = @ + 1]
                                   ELSE old[i]

\* the second of two adds by "second": the one line goes from quantity 1 to 2
C12_Witness ==
    /\ lastCall.op = "add_to_cart"
    /\ lastCall.args = AddArgs(None, 1, R_second)
    /\ Len(lastCall.before.last_search_results) >= 2
    /\ Len(lastCall.before.cart) = 1
    /\ lastCall.before.cart[1].quantity = 1
    /\ Len(Now.cart) = 1
    /\ Now.cart[1].product_id = lastCall.before.last_search_results[2].id
    /\ Now.cart[1].quantity = 2

\* the conversation state the last call found in its session
StateBefore ==
    [session_id |-> lastCall.sid,
     last_search_results |-> lastCall.before.last_search_results,
     last_compared_products |-> lastCall.before.last_compared_products]

\* the error message of the last call, "" if it returned none
ErrorOf == IF lastCall.ret.kind = "error" THEN lastCall.ret.error ELSE ""

\* C13: add_to_cart returns "Product ID or reference required" exactly when
\* neither a product_id nor a reference was passed, "Could not resolve
\* reference" exactly when no product_id was passed and the reference passed
\* does not resolve by resolve_product_reference, and "Product not found"
\* exactly when the product id passed or resolved is not in the catalog; a
\* call that returns one of these errors leaves the cart as it was.
C13_AddToCartErrors ==
    lastCall.op = "add_to_cart"
    => LET a == lastCall.args
           given == a.product_id # None
           byRef == a.reference # <<>>
           resolved == IF byRef
                       THEN resolve_product_reference(StateBefore, a.reference)
                       ELSE None
       IN  /\ (ErrorOf = "Product ID or reference required")
                  <=> (~given /\ ~byRef)
           /\ (ErrorOf = "Could not resolve reference")
                  <=> (~given /\ byRef /\ resolved = None)
           /\ (ErrorOf = "Product not found")
                  <=> \/ given /\ get_product_by_id(a.product_id.int) = None
                      \/ /\ ~given
                         /\ byRef
                         /\ resolved # None
                         /\ get_product_by_id(resolved.id) = None
           /\ (lastCall.ret.kind = "error" => Now.cart = lastCall.before.cart)

\* the sum over the first n lines of a cart of quantity, or of price x quantity
RECURSIVE CartTotal(_, _, _)
CartTotal(cart, n, priced) ==
    IF n = 0 THEN 0
    ELSE CartTotal(cart, n - 1, priced)
         + (IF priced THEN cart[n].price * cart[n].quantity ELSE cart[n].quantity)

\* C14: get_cart, after any sequence of add_to_cart, remove_from_cart and
\* clear_cart calls on the session, returns the current line items, a
\* total_items equal to the sum of their quantities and a total_price equal
\* to the sum of price x quantity over them, and it changes no line item.
C14_CartTotals ==
    lastCall.op = "get_cart"
    => /\ lastCall.ret.kind = "ok"
       /\ lastCall.ret.payload.items = Now.cart
       /\ lastCall.ret.payload.total_items
              = CartTotal(Now.cart, Len(Now.cart), FALSE)
       /\ lastCall.ret.payload.total_price
              = CartTotal(Now.cart, Len(Now.cart), TRUE)
       /\ Now.cart = lastCall.before.cart

\* get_cart after product 1 (price 30) was added with quantity 1 and then 2
C14_Witness ==
    /\ lastCall.op = "get_cart"
    /\ Len(Now.cart) = 1
    /\ Now.cart[1].quantity = 3
    /\ lastCall.ret.payload.total_items = 3
    /\ lastCall.ret.payload.total_price = 90

\* the threads that hold a state handed out since the last clear of its session
Holders == {t \in Callers : callers[t].pc = "got" /\ ~callers[t].cleared}

\* C15: one conversation state per session id, created if absent:
\* get_session_state always returns a state; the first access creates one
\* with both lists empty; every later access, no clear in between, returns
\* the very state the dict holds and every earlier caller was handed, so its
\* contents are those left by the last write, through whichever reference.
C15_OneStatePerSession ==
    /\ \A s \in DOMAIN session_refs :
           /\ session_refs[s] \in 1..Len(heap)
           /\ heap[session_refs[s]].session_id = s
    /\ \A t \in Holders :
           /\ callers[t].session_id \in DOMAIN session_refs
           /\ session_refs[callers[t].session_id] = callers[t].state
    /\ lastCall.op = "get_session_state"
       => /\ lastCall.sid \in DOMAIN session_refs
          /\ lastCall.ret = heap[session_refs[lastCall.sid]]
          /\ lastCall.ret.last_search_results
                 = lastCall.before.last_search_results
          /\ lastCall.ret.last_compared_products
                 = lastCall.before.last_compared_products
          /\ (lastCall.created
              => /\ lastCall.ret.last_search_results = <<>>
                 /\ lastCall.ret.last_compared_products = <<>>)
    /\ (lastCall.op = "store_search_results" /\ ~lastCall.cleared)
       => /\ lastCall.sid \in DOMAIN session_refs
          /\ heap[session_refs[lastCall.sid]].last_search_results
                 = [i \in 1..Len(lastCall.args.products) |->
                       Summary(lastCall.args.products[i])]

\* a get of an existing session returns search results that another thread
\* wrote through its own reference, while that thread's later reference is
\* the same one
C15_Witness ==
    /\ lastCall.op = "get_session_state"
    /\ ~lastCall.created
    /\ lastCall.ret.last_search_results # <<>>
    /\ Holders = Callers
    /\ callers["t1"].state = callers["t2"].state

\* C20: no lost update when threads overlap in get_session_state for one
\* session: the dict holds, for each session, the very state every thread
\* was handed for it, and once search results have been stored through a
\* handed-out state, the state the dict holds for that session (the one
\* every later get_session_state returns) contains those results.
C20_NoLostUpdate ==
    /\ \A t \in Callers :
           callers[t].pc = "got"
           => session_refs[callers[t].session_id] = callers[t].state
    /\ lastCall.op = "store_search_results"
       => heap[session_refs[lastCall.sid]].last_search_results
              = [i \in 1..Len(lastCall.args.products) |->
                    Summary(lastCall.args.products[i])]

\* C16: compare_products keeps its two failures apart: with a reference it
\* returns "Could not resolve reference" only when resolve_product_indices
\* returns None; when the reference resolves to the empty index list ("all"
\* over no search results) it returns "No products to compare".
C16_CompareFailures ==
    (lastCall.op = "compare_products" /\ lastCall.args.reference # <<>>)
    => LET indices == resolve_product_indices(StateBefore,
                                              lastCall.args.reference)
       IN  /\ (ErrorOf = "Could not resolve reference" => indices = None)
           /\ (indices = [list |-> <<>>] => ErrorOf = "No products to compare")

\* the phrase of the last call holds "first three" and no "two"
FirstThreeRef == Contains(Phrase, S_first_three) /\ ~Contains(Phrase, S_two)

\* C17: the ordinal guard of resolve_product_reference excludes only "two":
\* a phrase with "first three" and no "two" is taken by the ordinal "first",
\* so over non-empty search results resolve_product_reference returns the
\* single product last_search_results[0], while resolve_product_indices on
\* the same phrase and state returns [0,1,2], or None under 3 results.
C17_FirstThreeIsOrdinal ==
    /\ (/\ lastCall.op = "resolve_product_reference"
        /\ FirstThreeRef
        /\ Now.last_search_results # <<>>)
       => lastCall.ret = Now.last_search_results[1]
    /\ (lastCall.op = "resolve_product_indices" /\ FirstThreeRef)
       => lastCall.ret = IF Len(Now.last_search_results) >= 3
                         THEN [list |-> <<0, 1, 2>>] ELSE None

\* "first three" resolved to the one product at index 0 of at least three
\* search results, which resolve_product_indices resolves to [0,1,2]
C17_Witness ==
    /\ lastCall.op = "resolve_product_reference"
    /\ lastCall.args.reference = S_first_three
    /\ Len(Now.last_search_results) >= 3
    /\ lastCall.ret = Now.last_search_results[1]
    /\ resolve_product_indices(StateBefore, S_first_three)
           = [list |-> <<0, 1, 2>>]

\* what the catalog search of a search_products call with arguments a returns
FoundBy(a) ==
    SearchFilter(a.query, a.category,
                 IF a.price_range # "" THEN json_loads(a.price_range) ELSE None)

\* the first entries, at most 5, of a catalog search result, as stored
FirstFive(found) ==
    [i \in 1..(IF Len(found) < 5 THEN Len(found) ELSE 5) |-> Summary(found[i])]

\* C18: through tool calls (search_products, compare_products, add_to_cart,
\* remove_from_cart, clear_cart, get_cart, get_product_details, on any
\* session) every session's last_search_results has at most 5 entries and
\* is the first entries, in catalog order, of what the most recent
\* successful search_products call for that session found: a successful
\* search sets it so, and every other call leaves it as it was.
C18_ToolLayerKeepsTopFive ==
    [][\A s \in SessionIds :
          /\ Len(Snapshot(s)'.last_search_results) <= 5
          /\ Snapshot(s)'.last_search_results
                 = IF /\ lastCall'.op = "search_products"
                      /\ lastCall'.sid = s
                      /\ lastCall'.ret.kind = "ok"
                   THEN FirstFive(FoundBy(lastCall'.args))
                   ELSE Snapshot(s).last_search_results]_vars

\* a search that found all 7 products of the catalog stored the first 5
C18_Witness ==
    /\ lastCall.op = "search_products"
    /\ lastCall.ret.kind = "ok"
    /\ Len(FoundBy(lastCall.args)) = 7
    /\ Len(Now.last_search_results) = 5
    /\ Now.last_search_results = FirstFive(Catalog)

\* no two lines of a cart hold the same product id
OneLinePerProduct(cart) ==
    \A i, j \in 1..Len(cart) : cart[i].product_id = cart[j].product_id => i = j

\* C19: through add_to_cart, remove_from_cart and clear_cart calls run one at
\* a time, with whatever integer quantity the agent passes, every session's
\* cart holds at most one line per product id and every line has a quantity
\* of at least 1.
C19_CartWellFormed ==
    \A s \in SessionIds :
        /\ OneLinePerProduct(Snapshot(s).cart)
        /\ \A i \in 1..Len(Snapshot(s).cart) : Snapshot(s).cart[i].quantity >= 1

=========================================================================
